---- MODULE Spec2Model ----
(***************************************************************************)
(* Event-driven backtester: the bar feed (BinanceDataHandler), the event   *)
(* queue and the Portfolio accounting state machine.                       *)
(*                                                                         *)
(* Prices, costs and commissions are integers (exact arithmetic); a        *)
(* signal strength is the rational strength / StrengthDen.                 *)
(***************************************************************************)
EXTENDS Integers, Sequences, FiniteSets, TLC

\* ------------------------------------------------------------------ bounds
MaxBars == 2          \* longest native series of a symbol
MaxSignals == 2       \* Signal events the strategy produces in a run
MaxFills == 1         \* Fill events a producer other than the executor puts

\* --------------------------------------------------------------- constants
initial_capital == 100000
StrengthDen == 1000

symbol_list == <<"A", "B">>
Symbols == {symbol_list[i] : i \in 1..Len(symbol_list)}
FillCosts == {1}
Commissions == {1}
FillQuantities == {1}
Strengths == {15}
SignalTypes == {"LONG", "SHORT", "EXIT"}
Directions == {"BUY", "SELL"}
MaxAdvance == MaxBars + 1

\* window.start precedes every bar of the window; bars carry the row labels
\* 0, 1, 2, ... of the first symbol's frame.
start_date == 0 - 1

VARIABLES
    symbol_data,          \* symbol -> the rows its iterator has not yielded yet
    latest_symbol_data,   \* symbol -> the bars pushed so far
    continue_backtest,
    events,               \* the FIFO queue
    current_positions,
    current_holdings,
    all_positions,
    all_holdings,
    equity_curve,         \* the finalized curve, <<>> while there is none
    raised,               \* the exception that ended the run, "none" otherwise
    last,                 \* the handler that made the last step, and its event
    stats                 \* counters of what has happened so far

vars == <<symbol_data, latest_symbol_data, continue_backtest, events,
          current_positions, current_holdings, all_positions, all_holdings,
          equity_curve, raised, last, stats>>

feedVars == <<symbol_data, latest_symbol_data, continue_backtest>>
portfolioVars == <<current_positions, current_holdings, all_positions, all_holdings,
                   equity_curve>>

\* ------------------------------------------------------------------ events
MarketEvent == [type |-> "MARKET"]
NoneEvent == [type |-> "NONE"]
SignalEvent(symbol, signal_type, strength) ==
    [type |-> "SIGNAL", symbol |-> symbol, signal_type |-> signal_type,
     strength |-> strength]
OrderEvent(symbol, order_type, quantity, direction) ==
    [type |-> "ORDER", symbol |-> symbol, order_type |-> order_type,
     quantity |-> quantity, direction |-> direction]
FillEvent(symbol, quantity, direction, fill_cost, commission) ==
    [type |-> "FILL", symbol |-> symbol, quantity |-> quantity,
     direction |-> direction, fill_cost |-> fill_cost, commission |-> commission]

AllSignals == {SignalEvent(s, t, k) : s \in Symbols, t \in SignalTypes, k \in Strengths}
AllFills == {FillEvent(s, n, d, p, c) : s \in Symbols, n \in FillQuantities,
                                        d \in Directions, p \in FillCosts,
                                        c \in Commissions}

\* ------------------------------------------------------------------ helpers
RECURSIVE SumOver(_, _)
SumOver(f, S) ==
    IF S = {} THEN 0
    ELSE LET x == CHOOSE y \in S : TRUE IN f[x] + SumOver(f, S \ {x})

Abs(x) == IF x < 0 THEN 0 - x ELSE x

Last(seq) == seq[Len(seq)]

\* --------------------------------------------------------------- bar feed
\* A variant that leaves every frame on its own index (no reindex).
Reindex_own_index(native, s) ==
    [i \in 1..Len(native[s]) |->
       [datetime |-> i - 1, Date |-> native[s][i].Date, close |-> native[s][i].close]]

\* _load_data_from_binance: a frame keeps the Date of a row as a column and
\* has the row labels 0..n-1 as its index; the combined index is the first
\* symbol's index (the union computed for the other symbols is discarded);
\* reindex(method="pad") gives label i the row of the symbol with that label,
\* or its last row when it has fewer rows.
Reindex(native, s) ==
    LET n == Len(native[symbol_list[1]])
        m == Len(native[s])
        row(i) == IF i <= m THEN native[s][i] ELSE native[s][m]
    IN [i \in 1..n |->
          [datetime |-> i - 1, Date |-> row(i).Date, close |-> row(i).close]]

\* The native series of a window: the first 1..MaxBars rows of the symbol's
\* closes, which move between the two prices from one row to the next.
FirstClose == [s \in Symbols |-> IF s = symbol_list[1] THEN 1 ELSE 2]
Tape(s, n) ==
    [i \in 1..n |->
       [Date |-> i - 1,
        close |-> IF i % 2 = 1 THEN FirstClose[s] ELSE 3 - FirstClose[s]]]
NativeData == {[s \in Symbols |-> Tape(s, len[s])] : len \in [Symbols -> 1..MaxBars]}

\* Native series with ragged timestamps: a symbol has a row at each Date of
\* a non-empty set of the window's timestamps, in ascending order.
Times == 0..MaxBars

RECURSIVE RowsAt(_, _)
RowsAt(s, dates) ==
    IF dates = {} THEN <<>>
    ELSE LET d == CHOOSE x \in dates : \A y \in dates : x <= y
         IN <<[Date |-> d, close |-> FirstClose[s] + d]>> \o RowsAt(s, dates \ {d})

RaggedData ==
    {[s \in Symbols |-> RowsAt(s, dates[s])] :
        dates \in [Symbols -> (SUBSET Times) \ {{}}]}

\* update_bars, one symbol after the other: next() on the symbol's iterator
\* either yields a bar, which is appended, or raises StopIteration, which
\* clears the continuation flag.
RECURSIVE PullBars(_, _, _, _)
PullBars(i, data, latest, cont) ==
    IF i > Len(symbol_list) THEN [data |-> data, latest |-> latest, cont |-> cont]
    ELSE LET s == symbol_list[i] IN
         IF data[s] = <<>>
         THEN PullBars(i + 1, data, latest, FALSE)
         ELSE PullBars(i + 1,
                       [data EXCEPT ![s] = Tail(@)],
                       [latest EXCEPT ![s] = Append(@, Head(data[s]))],
                       cont)

\* A variant that reads the first bar pushed (bars_list[0]) for the last one.
get_first_bar_value(symbol) == latest_symbol_data[symbol][1].close

\* get_latest_bar_value(symbol, "close") and get_latest_bar_datetime(symbol);
\* both index bars_list[-1] and raise IndexError on an empty list.
HasBar(symbol) == latest_symbol_data[symbol] # <<>>
get_latest_bar_value(symbol) == Last(latest_symbol_data[symbol]).close
get_latest_bar_datetime(symbol) == Last(latest_symbol_data[symbol]).datetime

\* The accessors as a caller sees them: the exception raised, the value
\* returned when there is none, and latest_symbol_data after the call.
\* self.latest_symbol_data[symbol] raises KeyError for a symbol that is no
\* key; the except clause prints and re-raises.
bars_list_default(symbol) ==
    IF symbol \in DOMAIN latest_symbol_data
    THEN [raised |-> "none", value |-> latest_symbol_data[symbol],
          latest |-> latest_symbol_data]
    ELSE [raised |-> "none", value |-> <<>>, latest |-> latest_symbol_data]

bars_list(symbol) ==
    IF symbol \in DOMAIN latest_symbol_data
    THEN [raised |-> "none", value |-> latest_symbol_data[symbol],
          latest |-> latest_symbol_data]
    ELSE [raised |-> "KeyError", latest |-> latest_symbol_data]

\* seq[-N:]
SliceLast(seq, N) ==
    LET k == Len(seq)
        lo == IF N = 0 \/ N > k THEN 0 ELSE k - N
    IN SubSeq(seq, lo + 1, k)

\* bars_list[-1] and what is taken from it
LastOf(r, field) ==
    IF r.raised # "none" THEN r
    ELSE IF r.value = <<>> THEN [raised |-> "IndexError", latest |-> r.latest]
    ELSE [raised |-> "none", latest |-> r.latest,
          value |-> IF field = "bar" THEN Last(r.value)
                    ELSE IF field = "datetime" THEN Last(r.value).datetime
                    ELSE Last(r.value).close]

get_latest_bar(symbol) == LastOf(bars_list(symbol), "bar")

\* A variant that returns the first N bars (bars_list[:N]).
get_latest_bars_head(symbol, N) ==
    LET r == bars_list(symbol)
    IN IF r.raised # "none" THEN r
       ELSE [raised |-> "none", latest |-> r.latest,
             value |-> SubSeq(r.value, 1, IF N > Len(r.value) THEN Len(r.value) ELSE N)]

get_latest_bars(symbol, N) ==
    LET r == bars_list(symbol)
    IN IF r.raised # "none" THEN r
       ELSE [raised |-> "none", latest |-> r.latest, value |-> SliceLast(r.value, N)]

latest_bar_datetime(symbol) == LastOf(bars_list(symbol), "datetime")

latest_bar_value(symbol) == LastOf(bars_list(symbol), "close")

get_latest_bars_values(symbol, N) ==
    LET r == get_latest_bars(symbol, N)
    IN IF r.raised # "none" THEN r
       ELSE [raised |-> "none", latest |-> r.latest,
             value |-> [i \in 1..Len(r.value) |-> r.value[i].close]]

\* --------------------------------------------------------------- portfolio
\* define_all_positions, define_all_holdings, define_current_holdings
define_all_positions ==
    <<[datetime |-> start_date, sym |-> [s \in Symbols |-> 0]]>>

define_all_holdings ==
    <<[datetime |-> start_date, sym |-> [s \in Symbols |-> 0],
       cash |-> initial_capital, commission |-> 0, total |-> initial_capital]>>

define_current_holdings ==
    [sym |-> [s \in Symbols |-> 0],
     cash |-> initial_capital, commission |-> 0, total |-> initial_capital]

\* The loop of update_timeindex over symbol_list: each symbol's market value
\* is stored in the row and added to the row's total.  It stops at the first
\* symbol without a bar (IndexError); ok tells whether it got through.
RECURSIVE MarkToMarket(_, _, _)
MarkToMarket(i, holdings, positions) ==
    IF i > Len(symbol_list) THEN [ok |-> TRUE, row |-> holdings]
    ELSE LET symbol == symbol_list[i] IN
         IF ~HasBar(symbol) THEN [ok |-> FALSE, row |-> holdings]
         ELSE LET market_value == positions[symbol] * get_latest_bar_value(symbol)
              IN MarkToMarket(i + 1,
                              [holdings EXCEPT !.sym[symbol] = market_value,
                                               !.total = @ + market_value],
                              positions)

\* A variant that marks the portfolio as it was at the previous row: the
\* fills applied since then are left out of the new row.
update_timeindex_stale(event) ==
    IF ~HasBar(symbol_list[1])
    THEN [all_positions |-> all_positions, all_holdings |-> all_holdings,
          raised |-> "IndexError"]
    ELSE LET dt == get_latest_bar_datetime(symbol_list[1])
         IN [all_positions |-> Append(all_positions,
                                      [all_positions[Len(all_positions)]
                                           EXCEPT !.datetime = dt]),
             all_holdings |-> Append(all_holdings,
                                     [all_holdings[Len(all_holdings)]
                                          EXCEPT !.datetime = dt]),
             raised |-> "none"]

\* update_timeindex: the state of the portfolio after the call, and the
\* exception it raised.
update_timeindex(event) ==
    IF ~HasBar(symbol_list[1])
    THEN [all_positions |-> all_positions, all_holdings |-> all_holdings,
          raised |-> "IndexError"]
    ELSE LET latest_datetime == get_latest_bar_datetime(symbol_list[1])
             positions == [datetime |-> latest_datetime,
                           sym |-> [s \in Symbols |-> current_positions[s]]]
             holdings == [datetime |-> latest_datetime,
                          sym |-> [s \in Symbols |-> 0],
                          cash |-> current_holdings.cash,
                          commission |-> current_holdings.commission,
                          total |-> current_holdings.cash]
             marked == MarkToMarket(1, holdings, current_positions)
         IN IF marked.ok
            THEN [all_positions |-> Append(all_positions, positions),
                  all_holdings |-> Append(all_holdings, marked.row),
                  raised |-> "none"]
            ELSE [all_positions |-> Append(all_positions, positions),
                  all_holdings |-> all_holdings,
                  raised |-> "IndexError"]

\* A variant that adds the quantity to the position whatever the direction.
update_positions_after_fill_unsigned(fill, positions) ==
    [positions EXCEPT ![fill.symbol] = @ + fill.quantity]

\* A variant that takes the cost of a fill out of the cash only.
update_holdings_after_fill_cash_only(fill, holdings) ==
    LET cost == (IF fill.direction = "SELL" THEN 0 - 1 ELSE 1)
                * latest_symbol_data[fill.symbol][Len(latest_symbol_data[fill.symbol])].close
                * fill.quantity
    IN [holdings EXCEPT !.sym[fill.symbol] = @ + cost,
                        !.commission = @ + fill.commission,
                        !.cash = @ - (cost + fill.commission),
                        !.total = @ - fill.commission]

\* fill_dir of update_positions_after_fill and update_holdings_after_fill
fill_dir(direction) ==
    IF direction = "SELL" THEN 0 - 1
    ELSE IF direction = "BUY" THEN 1
    ELSE 0

update_positions_after_fill(fill, positions) ==
    [positions EXCEPT ![fill.symbol] = @ + fill_dir(fill.direction) * fill.quantity]

\* A variant that values the fill at the price the Fill event carries.
holdings_fill_cost_of_event(fill) == fill.fill_cost

\* The price update_holdings_after_fill values the fill at.
holdings_fill_cost(fill) == get_latest_bar_value(fill.symbol)

update_holdings_after_fill(fill, holdings) ==
    LET cost == fill_dir(fill.direction) * holdings_fill_cost(fill) * fill.quantity
    IN [holdings EXCEPT !.sym[fill.symbol] = @ + cost,
                        !.commission = @ + fill.commission,
                        !.cash = @ - (cost + fill.commission),
                        !.total = @ - (cost + fill.commission)]

\* A variant that also snapshots the portfolio into the histories on a Fill.
update_fill_snapshot(event) ==
    IF event.type # "FILL" \/ ~HasBar(event.symbol)
    THEN [current_positions |-> current_positions,
          current_holdings |-> current_holdings,
          all_positions |-> all_positions, all_holdings |-> all_holdings,
          raised |-> IF event.type = "FILL" THEN "IndexError" ELSE "none"]
    ELSE LET positions == update_positions_after_fill(event, current_positions)
             holdings == update_holdings_after_fill(event, current_holdings)
             dt == get_latest_bar_datetime(event.symbol)
         IN [current_positions |-> positions, current_holdings |-> holdings,
             all_positions |-> Append(all_positions, [datetime |-> dt, sym |-> positions]),
             all_holdings |-> Append(all_holdings,
                                     [datetime |-> dt, sym |-> holdings.sym,
                                      cash |-> holdings.cash,
                                      commission |-> holdings.commission,
                                      total |-> holdings.total]),
             raised |-> "none"]

\* update_fill: positions first, then holdings; the holdings update raises
\* IndexError when the feed has pushed no bar of the symbol yet.  The result
\* is the state of the portfolio after the call.
update_fill(event) ==
    LET after(positions, holdings, exc) ==
            [current_positions |-> positions, current_holdings |-> holdings,
             all_positions |-> all_positions, all_holdings |-> all_holdings,
             raised |-> exc]
    IN IF event.type # "FILL"
       THEN after(current_positions, current_holdings, "none")
       ELSE IF ~HasBar(event.symbol)
       THEN after(update_positions_after_fill(event, current_positions),
                  current_holdings, "IndexError")
       ELSE after(update_positions_after_fill(event, current_positions),
                  update_holdings_after_fill(event, current_holdings), "none")

\* floor(100 * strength)
mkt_quantity(strength) == (100 * strength) \div StrengthDen

\* A variant whose LONG and SHORT branches do not look at the position held.
generate_naive_order_any_position(signal, positions) ==
    LET symbol == signal.symbol
        direction == signal.signal_type
        current_quantity == positions[symbol]
    IN IF direction = "LONG"
       THEN OrderEvent(symbol, "MKT", mkt_quantity(signal.strength), "BUY")
       ELSE IF direction = "SHORT"
       THEN OrderEvent(symbol, "MKT", mkt_quantity(signal.strength), "SELL")
       ELSE IF current_quantity > 0
       THEN OrderEvent(symbol, "MKT", Abs(current_quantity), "SELL")
       ELSE IF current_quantity < 0
       THEN OrderEvent(symbol, "MKT", Abs(current_quantity), "BUY")
       ELSE NoneEvent

\* generate_naive_order: four ifs in sequence, each overwriting order.
generate_naive_order(signal, positions) ==
    LET symbol == signal.symbol
        direction == signal.signal_type
        current_quantity == positions[symbol]
        order_type == "MKT"
        o0 == NoneEvent
        o1 == IF direction = "LONG" /\ current_quantity = 0
              THEN OrderEvent(symbol, order_type, mkt_quantity(signal.strength), "BUY")
              ELSE o0
        o2 == IF direction = "SHORT" /\ current_quantity = 0
              THEN OrderEvent(symbol, order_type, mkt_quantity(signal.strength), "SELL")
              ELSE o1
        o3 == IF direction = "EXIT" /\ current_quantity > 0
              THEN OrderEvent(symbol, order_type, Abs(current_quantity), "SELL")
              ELSE o2
        o4 == IF direction = "EXIT" /\ current_quantity < 0
              THEN OrderEvent(symbol, order_type, Abs(current_quantity), "BUY")
              ELSE o3
    IN o4

\* update_signal: the queue after the call; whatever the sizer returned is put.
update_signal(event, queue) ==
    IF event.type = "SIGNAL"
    THEN Append(queue, generate_naive_order(event, current_positions))
    ELSE queue

\* A variant that builds the curve on the history itself and drops the row
\* of the window start from it.
create_equity_curve_dataframe_inplace(holdings) ==
    [all_holdings |-> Tail(holdings), equity_curve |-> Tail(holdings),
     raised |-> "none"]

\* create_equity_curve_dataframe: a frame with one row per row of
\* all_holdings; returns = total.pct_change() is NaN in the first row and
\* total[t] / total[t-1] - 1 after it; equity_curve = (1 + returns).cumprod()
\* is NaN in the first row and the product of total[k] / total[k-1] up to t
\* after it, kept as the fraction total[t] / total[1] the product cancels
\* to.  The history is read, not written.
create_equity_curve_dataframe(holdings) ==
    LET NaN == [nan |-> TRUE]
        frac(n, d) == [nan |-> FALSE, num |-> n, den |-> d]
        row(t) ==
            [datetime |-> holdings[t].datetime,
             total |-> holdings[t].total,
             returns |-> IF t = 1 THEN NaN
                         ELSE frac(holdings[t].total - holdings[t - 1].total,
                                   holdings[t - 1].total),
             equity_curve |-> IF t = 1 THEN NaN
                              ELSE frac(holdings[t].total, holdings[1].total)]
    IN [all_holdings |-> holdings,
        equity_curve |-> [t \in 1..Len(holdings) |-> row(t)],
        raised |-> "none"]

\* update_bars: pull a bar of every symbol, then put a MarketEvent.
update_bars ==
    LET r == PullBars(1, symbol_data, latest_symbol_data, continue_backtest)
    IN [data |-> r.data, latest |-> r.latest, cont |-> r.cont,
        events |-> Append(events, MarketEvent)]

\* ------------------------------------------------------------------- state
Init ==
    /\ \E native \in NativeData :
          symbol_data = [s \in Symbols |-> Reindex(native, s)]
    /\ latest_symbol_data = [s \in Symbols |-> <<>>]
    /\ continue_backtest = TRUE
    /\ events = <<>>
    /\ current_positions = [s \in Symbols |-> 0]
    /\ current_holdings = define_current_holdings
    /\ all_positions = define_all_positions
    /\ all_holdings = define_all_holdings
    /\ equity_curve = <<>>
    /\ raised = "none"
    /\ last = [op |-> "init", event |-> NoneEvent]
    /\ stats = [advances |-> 0, full_advances |-> 0, markets_put |-> 0,
                markets_done |-> 0, signals |-> 0, fills |-> 0,
                fills_done |-> 0,
                bought |-> [s \in Symbols |-> 0],
                sold |-> [s \in Symbols |-> 0],
                turn_fills |-> [s \in Symbols |-> 0],
                spent |-> 0]

Running == raised = "none"

\* A call of update_bars by the driving loop.
Advance ==
    LET r == update_bars
        full == \A s \in Symbols : symbol_data[s] # <<>>
    IN /\ symbol_data' = r.data
       /\ latest_symbol_data' = r.latest
       /\ continue_backtest' = r.cont
       /\ events' = r.events
       /\ last' = [op |-> "update_bars", event |-> NoneEvent]
       /\ stats' = [stats EXCEPT !.advances = @ + 1,
                                 !.full_advances = IF full THEN @ + 1 ELSE @,
                                 !.markets_put = @ + (Len(r.events) - Len(events))]
       /\ UNCHANGED <<portfolioVars, raised>>

\* The driving loop calls update_bars when it has drained the queue.  Here it
\* goes on calling after the flag was cleared; RunAdvance below does not.
UpdateBars ==
    /\ Running
    /\ events = <<>>
    /\ stats.advances < MaxAdvance
    /\ Advance

\* A producer other than the executor puts a Fill event, between two turns.
PutFill ==
    /\ Running
    /\ events = <<>>
    /\ stats.fills < MaxFills
    /\ \E fill \in AllFills : events' = Append(events, fill)
    /\ last' = [op |-> "put_fill", event |-> NoneEvent]
    /\ stats' = [stats EXCEPT !.fills = @ + 1]
    /\ UNCHANGED <<feedVars, portfolioVars, raised>>

\* The driving loop takes the head of the queue and dispatches on its type.
HeadIs(type) == Running /\ events # <<>> /\ Head(events).type = type

MarketStep(sigs) ==
    LET r == update_timeindex(Head(events))
    IN /\ all_positions' = r.all_positions
       /\ all_holdings' = r.all_holdings
       /\ raised' = r.raised
       /\ events' = Tail(events) \o sigs
       /\ last' = [op |-> "update_timeindex", event |-> Head(events)]
       /\ stats' = [stats EXCEPT !.markets_done = @ + 1,
                                 !.signals = @ + Len(sigs),
                                 !.turn_fills = [s \in Symbols |-> 0]]
       /\ UNCHANGED <<feedVars, current_positions, current_holdings, equity_curve>>

\* The strategy sees the Market event first and may put Signal events.
SignalSeqs(n) == UNION {[1..k -> AllSignals] : k \in 0..n}

DispatchMarket ==
    /\ HeadIs("MARKET")
    /\ \E sigs \in SignalSeqs(MaxSignals - stats.signals) : MarketStep(sigs)

DispatchSignal ==
    /\ HeadIs("SIGNAL")
    /\ events' = update_signal(Head(events), Tail(events))
    /\ last' = [op |-> "update_signal", event |-> Head(events)]
    /\ UNCHANGED <<feedVars, portfolioVars, raised, stats>>

\* The execution simulator turns an Order into a Fill of the same symbol,
\* quantity and direction.
execute_order(order, fill_cost, commission) ==
    FillEvent(order.symbol, order.quantity, order.direction, fill_cost, commission)

DispatchOrder ==
    /\ HeadIs("ORDER")
    /\ \E p \in FillCosts, c \in Commissions :
          events' = Append(Tail(events), execute_order(Head(events), p, c))
    /\ last' = [op |-> "execute_order", event |-> Head(events)]
    /\ UNCHANGED <<feedVars, portfolioVars, raised, stats>>

DispatchFill ==
    /\ HeadIs("FILL")
    /\ LET r == update_fill(Head(events))
       IN /\ current_positions' = r.current_positions
          /\ current_holdings' = r.current_holdings
          /\ all_positions' = r.all_positions
          /\ all_holdings' = r.all_holdings
          /\ raised' = r.raised
    /\ events' = Tail(events)
    /\ last' = [op |-> "update_fill", event |-> Head(events)]
    /\ LET fill == Head(events)
           buy == IF fill.direction = "BUY" THEN fill.quantity ELSE 0
           sell == IF fill.direction = "SELL" THEN fill.quantity ELSE 0
           bars == latest_symbol_data[fill.symbol]
           paid == IF bars = <<>> THEN 0
                   ELSE (buy - sell) * bars[Len(bars)].close + fill.commission
       IN stats' = [stats EXCEPT !.fills_done = @ + 1,
                                 !.bought[fill.symbol] = @ + buy,
                                 !.sold[fill.symbol] = @ + sell,
                                 !.turn_fills[fill.symbol] = @ + buy - sell,
                                 !.spent = @ + paid]
    /\ UNCHANGED <<feedVars, equity_curve>>

\* An item that is no event is skipped.
DispatchNone ==
    /\ HeadIs("NONE")
    /\ events' = Tail(events)
    /\ last' = [op |-> "skip", event |-> Head(events)]
    /\ UNCHANGED <<feedVars, portfolioVars, raised, stats>>

Next ==
    \/ UpdateBars
    \/ PutFill
    \/ DispatchMarket
    \/ DispatchSignal
    \/ DispatchOrder
    \/ DispatchFill
    \/ DispatchNone

Spec == Init /\ [][Next]_vars

\* ------------------------------------------------- the turn-based run loop
\* Advance the feed while the flag is set and the queue is drained; every
\* Fill is the executor's.
RunAdvance ==
    /\ Running
    /\ events = <<>>
    /\ continue_backtest
    /\ Advance

NextRun ==
    \/ RunAdvance
    \/ DispatchMarket
    \/ DispatchSignal
    \/ DispatchOrder
    \/ DispatchFill
    \/ DispatchNone

SpecRun == Init /\ [][NextRun]_vars

\* ------------------------------------------------------ the feed's load
\* A feed constructed over ragged native series, then advanced.
InitLoad ==
    /\ \E native \in RaggedData :
          /\ symbol_data = [s \in Symbols |-> Reindex(native, s)]
          /\ last = [op |-> "_load_data_from_binance", event |-> native]
    /\ latest_symbol_data = [s \in Symbols |-> <<>>]
    /\ continue_backtest = TRUE
    /\ events = <<>>
    /\ current_positions = [s \in Symbols |-> 0]
    /\ current_holdings = define_current_holdings
    /\ all_positions = define_all_positions
    /\ all_holdings = define_all_holdings
    /\ equity_curve = <<>>
    /\ raised = "none"
    /\ stats = [advances |-> 0, full_advances |-> 0, markets_put |-> 0,
                markets_done |-> 0, signals |-> 0, fills |-> 0,
                fills_done |-> 0,
                bought |-> [s \in Symbols |-> 0],
                sold |-> [s \in Symbols |-> 0],
                turn_fills |-> [s \in Symbols |-> 0],
                spent |-> 0]

LoadAdvance ==
    /\ Running
    /\ stats.advances < MaxAdvance
    /\ Advance

NextLoad == LoadAdvance

SpecLoad == InitLoad /\ [][NextLoad]_vars

\* --------------------------------------------------- a run with finalize
\* The run loop, with create_equity_curve_dataframe called between turns:
\* before the first bar, during the run, after it, and more than once.
CreateEquityCurve ==
    /\ Running
    /\ events = <<>>
    /\ LET r == create_equity_curve_dataframe(all_holdings)
       IN /\ all_holdings' = r.all_holdings
          /\ equity_curve' = r.equity_curve
          /\ raised' = r.raised
    /\ last' = [op |-> "create_equity_curve_dataframe", event |-> NoneEvent]
    /\ UNCHANGED <<feedVars, events, current_positions, current_holdings,
                   all_positions, stats>>

NextFinal ==
    \/ RunAdvance
    \/ DispatchMarket
    \/ DispatchSignal
    \/ DispatchOrder
    \/ DispatchFill
    \/ DispatchNone
    \/ CreateEquityCurve

SpecFinal == Init /\ [][NextFinal]_vars

\* ------------------------------------------------- a caller of the feed
\* A strategy advances the feed and reads it through the accessors, with
\* symbols of the feed and with one that is not.
UnknownSymbols == {"Z"}
AskedSymbols == Symbols \cup UnknownSymbols
AskedCounts == 0..MaxAdvance

Accessor(op, symbol, N, r) ==
    /\ Running
    /\ latest_symbol_data' = r.latest
    /\ last' = [op |-> op, event |-> [symbol |-> symbol, N |-> N, result |-> r]]
    /\ UNCHANGED <<symbol_data, continue_backtest, events, portfolioVars,
                   raised, stats>>

GetLatestBar ==
    \E symbol \in AskedSymbols :
       Accessor("get_latest_bar", symbol, 1, get_latest_bar(symbol))

GetLatestBars ==
    \E symbol \in AskedSymbols, N \in AskedCounts :
       Accessor("get_latest_bars", symbol, N, get_latest_bars(symbol, N))

GetLatestBarDatetime ==
    \E symbol \in AskedSymbols :
       Accessor("get_latest_bar_datetime", symbol, 1, latest_bar_datetime(symbol))

GetLatestBarValue ==
    \E symbol \in AskedSymbols :
       Accessor("get_latest_bar_value", symbol, 1, latest_bar_value(symbol))

GetLatestBarsValues ==
    \E symbol \in AskedSymbols, N \in AskedCounts :
       Accessor("get_latest_bars_values", symbol, N, get_latest_bars_values(symbol, N))

NextFeed ==
    \/ LoadAdvance
    \/ GetLatestBar
    \/ GetLatestBars
    \/ GetLatestBarDatetime
    \/ GetLatestBarValue
    \/ GetLatestBarsValues

SpecFeed == Init /\ [][NextFeed]_vars

TypeOK ==
    /\ raised \in {"none", "IndexError"}
    /\ continue_backtest \in BOOLEAN
    /\ \A s \in Symbols : current_positions[s] \in Int

\* ================================================================== claims
Sign(direction) == IF direction = "BUY" THEN 1 ELSE 0 - 1
SymbolValue(holdings) == SumOver(holdings.sym, Symbols)
FillStep == last'.op = "update_fill" /\ raised' = "none"

\* C1: after any sequence of Market and Fill events the current snapshot
\* closes: total = cash + the sum of the symbols' entries.
C1_AccountingClosure ==
    current_holdings.total = current_holdings.cash + SymbolValue(current_holdings)

\* C2 (as stated): a Fill is booked at the fill_cost the Fill event carries:
\* cost = sign * fill_cost * quantity is added to the symbol's entry, the
\* commission to the commission entry, and cost + commission is taken from
\* cash and from total.
C2_FillBookedAtFillCost ==
    [][FillStep =>
         LET fill == last'.event
             cost == Sign(fill.direction) * fill.fill_cost * fill.quantity
         IN /\ current_holdings'.sym[fill.symbol] = current_holdings.sym[fill.symbol] + cost
            /\ current_holdings'.commission = current_holdings.commission + fill.commission
            /\ current_holdings'.cash = current_holdings.cash - (cost + fill.commission)
            /\ current_holdings'.total = current_holdings.total - (cost + fill.commission)
    ]_vars

\* C2 (amended): a Fill is booked at the feed's latest close of its symbol,
\* whatever fill_cost it carries: cost = sign * close * quantity is added to
\* the symbol's entry, the commission to the commission entry, cost +
\* commission is taken from cash and from total, and no other entry changes;
\* a Fill that arrives before the feed has a bar of the symbol raises and
\* leaves the holdings as they were.
C2_FillBookedAtLatestClose ==
    [][last'.op = "update_fill" =>
         LET fill == last'.event
             bars == latest_symbol_data[fill.symbol]
             cost == Sign(fill.direction) * bars[Len(bars)].close * fill.quantity
         IN IF bars = <<>>
            THEN raised' = "IndexError" /\ current_holdings' = current_holdings
            ELSE /\ raised' = "none"
                 /\ current_holdings'.sym =
                        [s \in Symbols |->
                           IF s = fill.symbol THEN current_holdings.sym[s] + cost
                           ELSE current_holdings.sym[s]]
                 /\ current_holdings'.commission = current_holdings.commission + fill.commission
                 /\ current_holdings'.cash = current_holdings.cash - (cost + fill.commission)
                 /\ current_holdings'.total = current_holdings.total - (cost + fill.commission)
    ]_vars

\* A Fill whose fill_cost differs from the latest close has been booked.
C2_Witness ==
    /\ last.op = "update_fill"
    /\ raised = "none"
    /\ HasBar(last.event.symbol)
    /\ last.event.fill_cost # get_latest_bar_value(last.event.symbol)

\* C3: right after the first Fill of a fresh portfolio, a BUY, the total is
\* the initial capital less the commission.
C3_FirstBuyKeepsTotal ==
    (/\ last.op = "update_fill"
     /\ raised = "none"
     /\ stats.fills_done = 1
     /\ last.event.direction = "BUY")
    => current_holdings.total = initial_capital - last.event.commission

IsPrefix(a, b) == Len(a) <= Len(b) /\ \A i \in 1..Len(a) : b[i] = a[i]
LatestClose(s) == latest_symbol_data[s][Len(latest_symbol_data[s])].close

\* C4: a Market event appends exactly one row to each history; the positions
\* row is current_positions, the holdings row holds position * latest close
\* for every symbol, the cash and commission of the current snapshot, and
\* total = cash + the sum of the symbols' market values.
C4_MarketAppendsMarkedRow ==
    [][last'.op = "update_timeindex" =>
         /\ raised' = "none"
         /\ Len(all_positions') = Len(all_positions) + 1
         /\ Len(all_holdings') = Len(all_holdings) + 1
         /\ IsPrefix(all_positions, all_positions')
         /\ IsPrefix(all_holdings, all_holdings')
         /\ LET prow == all_positions'[Len(all_positions')]
                hrow == all_holdings'[Len(all_holdings')]
            IN /\ \A s \in Symbols : prow.sym[s] = current_positions[s]
               /\ \A s \in Symbols : hrow.sym[s] = current_positions[s] * LatestClose(s)
               /\ hrow.cash = current_holdings.cash
               /\ hrow.commission = current_holdings.commission
               /\ hrow.total = hrow.cash + SumOver(hrow.sym, Symbols)
    ]_vars

\* A Market event has marked an open position at a close that differs from
\* the first bar's.
C4_Witness ==
    /\ last.op = "update_timeindex"
    /\ Len(all_holdings) >= 3
    /\ \E s \in Symbols :
          /\ current_positions[s] # 0
          /\ LatestClose(s) # latest_symbol_data[s][1].close
          /\ all_holdings[Len(all_holdings)].sym[s] = current_positions[s] * LatestClose(s)

\* C5: the histories are the initial entry (window start, no positions, the
\* initial capital as cash and total) and one entry per processed Market
\* event, with strictly increasing timestamps.
C5_HistoryShape ==
    /\ Len(all_positions) = 1 + stats.markets_done
    /\ Len(all_holdings) = 1 + stats.markets_done
    /\ all_positions[1] = [datetime |-> start_date, sym |-> [s \in Symbols |-> 0]]
    /\ all_holdings[1].datetime = start_date
    /\ all_holdings[1].cash = initial_capital
    /\ all_holdings[1].total = initial_capital
    /\ \A i \in 1..(Len(all_positions) - 1) :
          all_positions[i].datetime < all_positions[i + 1].datetime
    /\ \A i \in 1..(Len(all_holdings) - 1) :
          all_holdings[i].datetime < all_holdings[i + 1].datetime

\* C6: the sizer's answer to a signal of strength k for a symbol held at q:
\* BUY floor(100 k) on LONG with q = 0, SELL floor(100 k) on SHORT with q = 0,
\* SELL |q| on EXIT with q > 0, BUY |q| on EXIT with q < 0, nothing otherwise.
C6_IsFloor100(n, strength) ==
    /\ n * StrengthDen <= 100 * strength
    /\ 100 * strength < (n + 1) * StrengthDen

C6_SizerTable ==
    last.op = "update_signal" =>
        LET sig == last.event
            q == current_positions[sig.symbol]
            answer == events[Len(events)]
            IsOrder(dir) == /\ answer.type = "ORDER"
                            /\ answer.symbol = sig.symbol
                            /\ answer.direction = dir
        IN CASE sig.signal_type = "LONG" /\ q = 0 ->
                    IsOrder("BUY") /\ C6_IsFloor100(answer.quantity, sig.strength)
             [] sig.signal_type = "SHORT" /\ q = 0 ->
                    IsOrder("SELL") /\ C6_IsFloor100(answer.quantity, sig.strength)
             [] sig.signal_type = "EXIT" /\ q > 0 ->
                    IsOrder("SELL") /\ answer.quantity = q
             [] sig.signal_type = "EXIT" /\ q < 0 ->
                    IsOrder("BUY") /\ answer.quantity = 0 - q
             [] OTHER -> answer.type = "NONE"

\* A LONG or SHORT signal for a symbol with an open position got no order.
C6_Witness ==
    /\ last.op = "update_signal"
    /\ last.event.signal_type \in {"LONG", "SHORT"}
    /\ current_positions[last.event.symbol] # 0
    /\ events[Len(events)].type = "NONE"

\* C7: with every Fill the fill of a sizer's Order, an open position never
\* grows in magnitude.
C7_NoPyramiding ==
    [][\A s \in Symbols :
          current_positions[s] # 0 =>
              Abs(current_positions'[s]) <= Abs(current_positions[s])]_vars

\* C8: every item on the queue is an event; the portfolio puts nothing when
\* the sizer returns no order.
C8_QueueHoldsEvents ==
    \A i \in 1..Len(events) : events[i].type # "NONE"

\* C9: a Fill leaves both histories as they are, and no step of any kind
\* changes or removes a row that a history already has.
C9_HistoriesAppendOnly ==
    [][/\ last'.op = "update_fill" =>
             all_positions' = all_positions /\ all_holdings' = all_holdings
       /\ IsPrefix(all_positions, all_positions')
       /\ IsPrefix(all_holdings, all_holdings')
    ]_vars

\* A Fill has changed the current snapshot after Market rows were recorded.
C9_Witness ==
    /\ last.op = "update_fill"
    /\ raised = "none"
    /\ Len(all_holdings) >= 2
    /\ current_holdings.cash # all_holdings[Len(all_holdings)].cash
    /\ current_positions # all_positions[Len(all_positions)].sym

\* C10: the feed has put as many Market events as there were calls of
\* update_bars that got a new bar of every symbol.
C10_MarketPerFullAdvance ==
    stats.markets_put = stats.full_advances

\* C11: the continuation flag starts set, is cleared by the first update_bars
\* that finds a symbol exhausted and by nothing else, is never set again, and
\* from that call on no symbol's latest history grows.
C11_FlagAbsorbing ==
    /\ continue_backtest = TRUE
    /\ [][/\ continue_backtest' =
                (/\ continue_backtest
                 /\ ~(/\ last'.op = "update_bars"
                      /\ \E s \in Symbols : symbol_data[s] = <<>>))
          /\ ~continue_backtest' => latest_symbol_data' = latest_symbol_data
       ]_vars

\* update_bars has been called again after the call that cleared the flag.
C11_Witness ==
    /\ last.op = "update_bars"
    /\ ~continue_backtest
    /\ stats.advances >= stats.full_advances + 2
    /\ \A s \in Symbols : Len(latest_symbol_data[s]) = stats.full_advances

\* C12: every symbol's sequence is indexed by the union of all symbols'
\* native timestamps, and its bar at a timestamp T is the symbol's latest
\* native bar at or before T.
C12_NativeDates(native) ==
    UNION {{native[s][i].Date : i \in 1..Len(native[s])} : s \in Symbols}

C12_MergedForwardFilled ==
    last.op = "_load_data_from_binance" =>
        LET native == last.event
        IN \A s \in Symbols :
              /\ {symbol_data[s][i].datetime : i \in 1..Len(symbol_data[s])}
                    = C12_NativeDates(native)
              /\ \A i \in 1..Len(symbol_data[s]) :
                    LET bar == symbol_data[s][i]
                        seen == {k \in 1..Len(native[s]) :
                                    native[s][k].Date <= bar.datetime}
                    IN seen # {} =>
                          \E k \in seen :
                             /\ \A j \in seen : native[s][j].Date <= native[s][k].Date
                             /\ bar.Date = native[s][k].Date
                             /\ bar.close = native[s][k].close

AccessorOps == {"get_latest_bar", "get_latest_bars", "get_latest_bar_datetime",
                "get_latest_bar_value", "get_latest_bars_values"}

\* C13: an accessor called with a symbol the feed was not constructed with
\* raises to the caller, returns no value, and leaves the latest histories,
\* the iterators, the continuation flag and the queue as they were.
C13_UnknownSymbolRaises ==
    [][(last'.op \in AccessorOps /\ last'.event.symbol \notin Symbols) =>
          /\ last'.event.result.raised = "KeyError"
          /\ "value" \notin DOMAIN last'.event.result
          /\ UNCHANGED <<latest_symbol_data, symbol_data, continue_backtest, events>>
    ]_vars

\* An accessor has been called with an unknown symbol after bars were pushed.
C13_Witness ==
    /\ last.op \in AccessorOps
    /\ last.event.symbol \notin Symbols
    /\ last.event.result.raised = "KeyError"
    /\ \A s \in Symbols : latest_symbol_data[s] # <<>>

\* C16: for a symbol of the feed with k bars pushed and n >= 1,
\* get_latest_bars returns the last min(n, k) bars in the order they were
\* pushed, and raises nothing.
C16_LatestBarsUnderfill ==
    (/\ last.op = "get_latest_bars"
     /\ last.event.symbol \in Symbols
     /\ last.event.N >= 1)
    => LET bars == latest_symbol_data[last.event.symbol]
           k == Len(bars)
           n == last.event.N
           got == last.event.result
           m == IF n < k THEN n ELSE k
       IN /\ got.raised = "none"
          /\ Len(got.value) = m
          /\ \A j \in 1..m : got.value[j] = bars[k - m + j]

\* More bars were asked for than the two or more pushed, and fewer than
\* pushed on another call.
C16_Witness ==
    /\ last.op = "get_latest_bars"
    /\ last.event.symbol \in Symbols
    /\ Len(latest_symbol_data[last.event.symbol]) >= 2
    /\ last.event.N > Len(latest_symbol_data[last.event.symbol])
    /\ Len(last.event.result.value) = Len(latest_symbol_data[last.event.symbol])

\* C14: create_equity_curve_dataframe on a portfolio that has processed no
\* Market event fails with an insufficient-history error and produces no
\* curve.
C14_FinalizeGuarded ==
    (last.op = "create_equity_curve_dataframe" /\ stats.markets_done = 0)
    => (raised = "InsufficientHistory" /\ equity_curve = <<>>)

\* C15: create_equity_curve_dataframe leaves the histories and the current
\* snapshot as they are, and called again right away it yields the curve it
\* yielded before.
C15_FinalizeReadOnly ==
    [][last'.op = "create_equity_curve_dataframe" =>
          /\ UNCHANGED <<all_positions, all_holdings, current_positions,
                         current_holdings>>
          /\ Len(equity_curve') = Len(all_holdings)
          /\ last.op = "create_equity_curve_dataframe" => equity_curve' = equity_curve
    ]_vars

\* The curve of a run with Market rows and a Fill has been built.
C15_Witness ==
    /\ last.op = "create_equity_curve_dataframe"
    /\ Len(equity_curve) >= 3
    /\ Len(equity_curve) = Len(all_holdings)
    /\ stats.fills_done >= 1
    /\ \E t \in 2..Len(equity_curve) : equity_curve[t].returns.num # 0

\* C17: in the turn-based run a Fill is applied only when every Market event
\* put so far has had its row appended, and it leaves the rows as they are;
\* the row a Market event appends holds the positions of the row before it
\* plus the fills applied since that row.
C17_MarkThenFill ==
    [][/\ last'.op = "update_fill" =>
              /\ stats.markets_done = stats.markets_put
              /\ all_positions' = all_positions
              /\ all_holdings' = all_holdings
       /\ (last'.op = "update_timeindex" /\ raised' = "none") =>
              /\ Len(all_positions') = Len(all_positions) + 1
              /\ \A s \in Symbols :
                    Last(all_positions').sym[s] =
                        Last(all_positions).sym[s] + stats.turn_fills[s]
    ]_vars

\* A row that shows a fill of the turn before it.
C17_Witness ==
    /\ last.op = "update_timeindex"
    /\ Len(all_positions) >= 3
    /\ \E s \in Symbols :
          /\ Last(all_positions).sym[s] # all_positions[Len(all_positions) - 1].sym[s]
          /\ all_positions[Len(all_positions) - 1].sym[s] = 0

\* C18: a Fill of n units of s adds n to current_positions[s] on a BUY and
\* takes n off it on a SELL, and changes no other position; the position of
\* s is the quantity bought less the quantity sold over the fills so far.
C18_PositionIsNetFills ==
    /\ [](\A s \in Symbols : current_positions[s] = stats.bought[s] - stats.sold[s])
    /\ [][last'.op = "update_fill" =>
              LET fill == last'.event IN
              \A s \in Symbols :
                  current_positions'[s] =
                      IF s # fill.symbol THEN current_positions[s]
                      ELSE IF fill.direction = "BUY"
                           THEN current_positions[s] + fill.quantity
                           ELSE current_positions[s] - fill.quantity
       ]_vars

\* Both directions have been filled, of one symbol.
C18_Witness ==
    /\ last.op = "update_fill"
    /\ \E s \in Symbols : stats.bought[s] >= 1 /\ stats.sold[s] >= 1

\* C19: after k advances that obtained a bar of every symbol, every latest
\* history has k bars, the latest bars carry one timestamp, and the feed has
\* put k Market events.
C19_AdvanceCounts ==
    /\ \A s \in Symbols : Len(latest_symbol_data[s]) = stats.full_advances
    /\ \A s, u \in Symbols :
          HasBar(s) /\ HasBar(u) =>
              get_latest_bar_datetime(s) = get_latest_bar_datetime(u)
    /\ stats.markets_put = stats.full_advances

\* C20: the total of the current snapshot is its cash, and the cash is the
\* initial capital less the signed cost and the commission of every fill
\* booked.
C20_TotalIsCash ==
    /\ current_holdings.total = current_holdings.cash
    /\ current_holdings.cash = initial_capital - stats.spent

\* A fill has been booked and the cash has moved.
C20_Witness ==
    /\ last.op = "update_fill"
    /\ raised = "none"
    /\ stats.spent # 0
    /\ current_holdings.cash # initial_capital

====
